---- MODULE Spec2Model ----
(***************************************************************************)
(* Region resolution service (service-center-chile).                       *)
(*                                                                         *)
(* Two variants of the server are modelled: the flexible matcher           *)
(* (src/unnamed/part_000: normalize, levenshtein, REGION_ALIASES,          *)
(* isAliasMatch, findByRegionFlexible, POST/GET /nearest, GET /health) and *)
(* the exact matcher (src/index.js: normalize, POST /nearest).             *)
(*                                                                         *)
(* A JavaScript string is a sequence of characters, a character a TLA+     *)
(* string: an ASCII character stands for itself, "TAB" is U+0009, and      *)
(* "Uxxxx" is the code point U+xxxx (U00F3 is o-acute, U0301 the combining *)
(* acute accent).                                                          *)
(***************************************************************************)
EXTENDS Integers, Sequences, FiniteSets, TLC

VARIABLES serviceCenters, REGION_ALIASES, pending, responses, call

vars == <<serviceCenters, REGION_ALIASES, pending, responses, call>>

(***************************************************************************)
(* Characters                                                              *)
(***************************************************************************)
LowerSeq ==
  <<"a","b","c","d","e","f","g","h","i","j","k","l","m",
    "n","o","p","q","r","s","t","u","v","w","x","y","z">>

UpperSeq ==
  <<"A","B","C","D","E","F","G","H","I","J","K","L","M",
    "N","O","P","Q","R","S","T","U","V","W","X","Y","Z">>

AsciiLower == {LowerSeq[i] : i \in 1..26}

AsciiUpper == {UpperSeq[i] : i \in 1..26}

Digits == {"0","1","2","3","4","5","6","7","8","9"}

\* The characters the regular expression class \s and String.trim treat as
\* white space (space, tab, no-break space).
Whitespace == {" ", "TAB", "U00A0"}

\* U+0300..U+036F, the combining diacritical marks (acute, tilde, diaeresis).
CombiningMarks == {"U0301", "U0303", "U0308"}

\* Precomposed letters: <<upper case, lower case, base of the upper case,
\* base of the lower case, combining mark>>.
Precomposed ==
  { <<"U00D3", "U00F3", "O", "o", "U0301">>,
    <<"U00CD", "U00ED", "I", "i", "U0301">>,
    <<"U00D1", "U00F1", "N", "n", "U0303">> }

\* String.prototype.toLowerCase, one character.
toLowerCaseChar(c) ==
  IF c \in AsciiUpper
    THEN LowerSeq[CHOOSE i \in 1..26 : UpperSeq[i] = c]
    ELSE IF \E p \in Precomposed : p[1] = c
      THEN (CHOOSE p \in Precomposed : p[1] = c)[2]
      ELSE c

\* String.prototype.normalize('NFD'), one character: canonical decomposition.
nfdChar(c) ==
  IF \E p \in Precomposed : p[1] = c
    THEN LET p == CHOOSE q \in Precomposed : q[1] = c IN <<p[3], p[5]>>
    ELSE IF \E p \in Precomposed : p[2] = c
      THEN LET p == CHOOSE q \in Precomposed : q[2] = c IN <<p[4], p[5]>>
      ELSE <<c>>

(***************************************************************************)
(* String methods                                                          *)
(***************************************************************************)
toLowerCase(s) == [i \in 1..Len(s) |-> toLowerCaseChar(s[i])]

RECURSIVE NFD(_)
NFD(s) == IF s = <<>> THEN <<>> ELSE nfdChar(Head(s)) \o NFD(Tail(s))

\* .replace(/[\u0300-\u036f]/g, '')
stripMarks(s) == SelectSeq(s, LAMBDA c : c \notin CombiningMarks)

\* .replace(/[^a-z0-9\s]/g, ' ')
replacePunct(s) ==
  [i \in 1..Len(s) |->
     IF s[i] \in AsciiLower \cup Digits \cup Whitespace THEN s[i] ELSE " "]

\* .replace(/\s+/g, ' '): every maximal run of white space becomes one space.
RECURSIVE collapseSpaces(_)
collapseSpaces(s) ==
  IF s = <<>> THEN <<>>
  ELSE IF Head(s) \in Whitespace
    THEN IF Len(s) >= 2 /\ s[2] \in Whitespace
           THEN collapseSpaces(Tail(s))
           ELSE <<" ">> \o collapseSpaces(Tail(s))
    ELSE <<Head(s)>> \o collapseSpaces(Tail(s))

RECURSIVE trimStart(_)
trimStart(s) ==
  IF s # <<>> /\ Head(s) \in Whitespace THEN trimStart(Tail(s)) ELSE s

RECURSIVE trimEnd(_)
trimEnd(s) ==
  IF s # <<>> /\ s[Len(s)] \in Whitespace
    THEN trimEnd(SubSeq(s, 1, Len(s) - 1))
    ELSE s

\* String.prototype.trim
trim(s) == trimEnd(trimStart(s))

(***************************************************************************)
(* JavaScript values that reach the functions: type is what typeof gives,  *)
(* val the text String(v) gives.                                           *)
(***************************************************************************)
Str(s) == [type |-> "string", val |-> s]

Undefined ==
  [type |-> "undefined", val |-> <<"u","n","d","e","f","i","n","e","d">>]

Null == [type |-> "object", val |-> <<"n","u","l","l">>]

Num5 == [type |-> "number", val |-> <<"5">>]

Num0 == [type |-> "number", val |-> <<"0">>]

\* An array holding two strings, as a repeated query parameter gives:
\* typeof is "object" and String(['rm','rm']) is "rm,rm".
ArrRm == [type |-> "object", val |-> <<"r","m",",","r","m">>]

\* JavaScript truthiness (!v): undefined, null, '' and 0 are falsy.
Falsy(v) ==
  \/ v = Undefined
  \/ v = Null
  \/ v = Num0
  \/ v.type = "string" /\ v.val = <<>>

(***************************************************************************)
(* normalize                                                               *)
(***************************************************************************)
\* The method chain of normalize in part_000, on a string.
normalizeChain(s) ==
  trim(collapseSpaces(replacePunct(stripMarks(NFD(toLowerCase(s))))))

\* A plausible slip: trimming before the punctuation is replaced.
normalizeTrimFirst(str) ==
  LET s == IF str = Undefined THEN <<>> ELSE str.val
  IN  collapseSpaces(replacePunct(trim(stripMarks(NFD(toLowerCase(s))))))

\* normalize of part_000: the default '' applies to undefined only, and
\* String(str) turns any other value into its text.
normalize(str) ==
  LET s == IF str = Undefined THEN <<>> ELSE str.val
  IN  normalizeChain(s)

\* normalize of index.js: str.toLowerCase() throws a TypeError unless str is a
\* string (undefined and null have no properties, a number has no
\* toLowerCase).
normalizeExact(str) ==
  IF str.type = "string"
    THEN [threw |-> FALSE, val |-> trim(stripMarks(NFD(toLowerCase(str.val))))]
    ELSE [threw |-> TRUE, val |-> <<"T","y","p","e","E","r","r","o","r">>]

(***************************************************************************)
(* levenshtein                                                             *)
(***************************************************************************)
Min3(x, y, z) ==
  IF x <= y /\ x <= z THEN x ELSE IF y <= z THEN y ELSE z

\* A plausible slip: the insertion term is left out of the minimum.
RECURSIVE fillRowNoInsert(_, _, _, _, _)
fillRowNoInsert(a, b, prev, row, i) ==
  LET j == Len(row)
  IN  IF j > Len(b) THEN row
      ELSE LET cost == IF a[i] = b[j] THEN 0 ELSE 1
               d == prev[j + 1] + 1
               s == prev[j] + cost
               cell == IF d <= s THEN d ELSE s
           IN  fillRowNoInsert(a, b, prev, Append(row, cell), i)

\* The inner loop over j, for row i of the table: row holds dp[i][0..j-1],
\* prev is dp[i-1] (dp[i][j] is element j+1 of row).
RECURSIVE fillRow(_, _, _, _, _)
fillRow(a, b, prev, row, i) ==
  LET j == Len(row)
  IN  IF j > Len(b) THEN row
      ELSE LET cost == IF a[i] = b[j] THEN 0 ELSE 1
               cell == Min3(prev[j + 1] + 1,    \* delete
                            row[j] + 1,         \* insert
                            prev[j] + cost)     \* substitute
           IN  fillRow(a, b, prev, Append(row, cell), i)

\* The outer loop over i: dp holds rows 0..i-1 (dp[i] is element i+1), and
\* dp[i][0] = i starts row i.
RECURSIVE fillTable(_, _, _)
fillTable(a, b, dp) ==
  LET i == Len(dp)
  IN  IF i > Len(a) THEN dp
      ELSE fillTable(a, b, Append(dp, fillRow(a, b, dp[i], <<i>>, i)))

levenshtein(a0, b0) ==
  LET a == normalize(Str(a0))
      b == normalize(Str(b0))
      m == Len(a)
      n == Len(b)
  IN  IF m = 0 THEN n
      ELSE IF n = 0 THEN m
      \* row 0 is dp[0][j] = j
      ELSE fillTable(a, b, <<[j \in 1..(n + 1) |-> j - 1]>>)[m + 1][n + 1]

(***************************************************************************)
(* Data                                                                    *)
(***************************************************************************)
RegionRM ==
  <<"R","e","g","i","U00F3","n"," ","M","e","t","r","o","p","o","l","i","t",
    "a","n","a"," ","d","e"," ","S","a","n","t","i","a","g","o">>

SAMTEK ==
  [ region   |-> RegionRM,
    name     |-> "SAMTEK",
    address  |-> "Nueva Tajamar 481, Torre Sur, Oficina 1601. Las Condes",
    products |-> "Notebook, Desktop PC, All-in-one PCs, Eee Pad, Eee",
    image    |-> "samtek.png" ]

\* serviceCenters as the module builds it.
Catalog == <<SAMTEK>>

\* The property name of REGION_ALIASES, written with the accent.
AliasKeyRM ==
  <<"r","e","g","i","U00F3","n"," ","m","e","t","r","o","p","o","l","i","t",
    "a","n","a"," ","d","e"," ","s","a","n","t","i","a","g","o">>

AliasesRM ==
  << <<"r","e","g","i","o","n"," ","m","e","t","r","o","p","o","l","i","t","a",
       "n","a"," ","d","e"," ","s","a","n","t","i","a","g","o">>,
     <<"r","m">>,
     <<"m","e","t","r","o","p","o","l","i","t","a","n","a">>,
     <<"s","a","n","t","i","a","g","o">>,
     <<"r","e","g","i","o","n"," ","m","e","t","r","o","p","o","l","i","t","a",
       " ","n","a"," ","d","e"," ","s","a","n","t","i","a","g","o">>,
     <<"r","e","g","i","o","n"," ","m","e","t","r","o","p","o","l","o","t","a",
       "n","a"," ","d","e"," ","s","a","n","t","i","a","g","o">>,
     <<"r","e","g","i","o","n"," ","m","e","t","r","o","p","o","l","i","t","a",
       "n","a">>,
     <<"m","e","t","r","o","p","o","l","i","t","a","n","a"," ","d","e"," ","s",
       "a","n","t","i","a","g","o">> >>

\* REGION_ALIASES as the module builds it: one property.
AliasTable == [k \in {AliasKeyRM} |-> AliasesRM]

(***************************************************************************)
(* Matcher                                                                 *)
(***************************************************************************)
\* String.prototype.includes
includes(s, x) ==
  \E i \in 0..(Len(s) - Len(x)) : SubSeq(s, i + 1, i + Len(x)) = x

\* The minimum length of the normalized input for substring containment.
MinPartialLen == 6

\* The largest edit distance accepted as a typo.
MaxTypoDistance == 2

\* REGION_ALIASES[key] || []
aliasesFor(key) ==
  IF key \in DOMAIN REGION_ALIASES THEN REGION_ALIASES[key] ELSE <<>>

\* A plausible slip: substring containment without the length gate.
isAliasMatchNoGate(input, regionName) ==
  LET key == normalize(Str(regionName))
      inputN == normalize(Str(input))
      aliases == aliasesFor(key)
  IN  \/ inputN = key
      \/ (\E i \in 1..Len(aliases) : normalize(Str(aliases[i])) = inputN)
      \/ (includes(key, inputN) \/ includes(inputN, key))
      \/ levenshtein(inputN, key) <= MaxTypoDistance
      \/ (\E i \in 1..Len(aliases) :
            levenshtein(inputN, aliases[i]) <= MaxTypoDistance)

isAliasMatch(input, regionName) ==
  LET key == normalize(Str(regionName))
      inputN == normalize(Str(input))
      aliases == aliasesFor(key)
  IN  \/ inputN = key
      \/ (\E i \in 1..Len(aliases) : normalize(Str(aliases[i])) = inputN)
      \/ /\ Len(inputN) >= MinPartialLen
         /\ (includes(key, inputN) \/ includes(inputN, key))
      \/ levenshtein(inputN, key) <= MaxTypoDistance
      \/ (\E i \in 1..Len(aliases) :
            levenshtein(inputN, aliases[i]) <= MaxTypoDistance)

\* The value of a failed find and of "match || null": no entry.
NoEntry == [region |-> <<>>, name |-> "null", address |-> "", products |-> "",
            image |-> ""]

\* Array.prototype.find: the first element, in array order, among those at
\* the indices hits (the ones satisfying the callback); none if there is none.
find(seq, hits) ==
  IF hits = {} THEN NoEntry
  ELSE seq[CHOOSE i \in hits : \A k \in hits : i <= k]

\* A plausible slip: the exact pass is left out.
findByRegionFlexibleNoExact(input) ==
  find(serviceCenters,
       {i \in 1..Len(serviceCenters) :
          isAliasMatch(input, serviceCenters[i].region)})

findByRegionFlexible(input) ==
  LET exact == find(serviceCenters,
                    {i \in 1..Len(serviceCenters) :
                       normalize(Str(serviceCenters[i].region))
                         = normalize(Str(input))})
  IN  IF exact # NoEntry THEN exact
      ELSE find(serviceCenters,
                {i \in 1..Len(serviceCenters) :
                   isAliasMatch(input, serviceCenters[i].region)})

(***************************************************************************)
(* State                                                                   *)
(*   serviceCenters, REGION_ALIASES  the module-level data                 *)
(*   pending     the requests received and not yet handled                 *)
(*   responses   the requests handled, each with its response              *)
(*   call        a direct call of normalize, levenshtein or                *)
(*               findByRegionFlexible, and what it returned                *)
(***************************************************************************)
NoCall == [fn |-> "none"]

\* All strings over alphabet of length at most n.
RECURSIVE Strings(_, _)
Strings(alphabet, n) ==
  IF n = 0 THEN {<<>>}
  ELSE LET shorter == Strings(alphabet, n - 1)
       IN  shorter \cup {Append(s, c) : s \in shorter, c \in alphabet}

StaticData ==
  /\ serviceCenters = Catalog
  /\ REGION_ALIASES = AliasTable

Idle ==
  /\ pending = {}
  /\ responses = {}

(***************************************************************************)
(* Direct calls of normalize                                               *)
(***************************************************************************)
MaxNormLen == 3

NormAlphabet == {"a", "B", "U00D3", "U0301", "1", "!", " ", "TAB"}

NormInputs ==
  {Str(s) : s \in Strings(NormAlphabet, MaxNormLen)} \cup {Undefined, Null, Num5}

InitNorm ==
  /\ StaticData
  /\ Idle
  /\ \E v \in NormInputs :
       call = [fn |-> "normalize", arg |-> v, phase |-> "called",
               out |-> <<>>, again |-> <<>>,
               outExact |-> [threw |-> FALSE, val |-> <<>>],
               againExact |-> [threw |-> FALSE, val |-> <<>>]]

\* normalize(arg), in both variants.
Normalize ==
  /\ call.fn = "normalize"
  /\ call.phase = "called"
  /\ call' = [call EXCEPT !.phase = "once",
                          !.out = normalize(call.arg),
                          !.outExact = normalizeExact(call.arg)]
  /\ UNCHANGED <<serviceCenters, REGION_ALIASES, pending, responses>>

\* normalize of the result of the first call.
NormalizeAgain ==
  /\ call.fn = "normalize"
  /\ call.phase = "once"
  /\ call' = [call EXCEPT !.phase = "twice",
                          !.again = normalize(Str(call.out)),
                          !.againExact =
                             IF call.outExact.threw THEN call.outExact
                             ELSE normalizeExact(Str(call.outExact.val))]
  /\ UNCHANGED <<serviceCenters, REGION_ALIASES, pending, responses>>

NextNorm == Normalize \/ NormalizeAgain

SpecNorm == InitNorm /\ [][NextNorm]_vars

(***************************************************************************)
(* Direct calls of levenshtein                                             *)
(***************************************************************************)
MaxLevLen == 3

LevAlphabet == {"a", "B", " "}

InitLev ==
  /\ StaticData
  /\ Idle
  /\ \E a \in Strings(LevAlphabet, MaxLevLen) :
       \E b \in Strings(LevAlphabet, MaxLevLen) :
         call = [fn |-> "levenshtein", a |-> a, b |-> b, phase |-> "called",
                 out |-> 0, swapped |-> 0]

\* levenshtein(a, b)
Levenshtein ==
  /\ call.fn = "levenshtein"
  /\ call.phase = "called"
  /\ call' = [call EXCEPT !.phase = "once",
                          !.out = levenshtein(call.a, call.b)]
  /\ UNCHANGED <<serviceCenters, REGION_ALIASES, pending, responses>>

\* levenshtein(b, a)
LevenshteinSwapped ==
  /\ call.fn = "levenshtein"
  /\ call.phase = "once"
  /\ call' = [call EXCEPT !.phase = "both",
                          !.swapped = levenshtein(call.b, call.a)]
  /\ UNCHANGED <<serviceCenters, REGION_ALIASES, pending, responses>>

NextLev == Levenshtein \/ LevenshteinSwapped

SpecLev == InitLev /\ [][NextLev]_vars

(***************************************************************************)
(* Direct calls of findByRegionFlexible and isAliasMatch, on the module's  *)
(* own data and on catalogs of several entries                             *)
(***************************************************************************)
\* The canonical key of the module's one region.
KeyRM == normalize(Str(RegionRM))

\* Every fragment (contiguous substring) of the canonical key.
Fragments ==
  {SubSeq(KeyRM, i, j) : i \in 1..Len(KeyRM), j \in 1..Len(KeyRM)} \ {<<>>}

\* One-character slips of the short aliases: a character replaced by "x" or
\* dropped.
Typos ==
  UNION {{[a EXCEPT ![i] = "x"] : i \in 1..Len(a)}
         \cup {SubSeq(a, 1, i - 1) \o SubSeq(a, i + 1, Len(a)) : i \in 1..Len(a)} :
         a \in {AliasesRM[2], AliasesRM[3], AliasesRM[4]}}

NamedInputs ==
  { RegionRM,
    <<"r","n">>,
    <<"s","a","n","t","i","a","g","p">>,
    <<"m","e","t","r","o">>,
    <<"d","e">>,
    <<"R","M">>,
    <<"V","a","l","p","a","r","a","U00ED","s","o">>,
    <<"!","!","!">>,
    <<"S","a","n","t","i","a","g","o",","," ","C","h","i","l","e","!">>,
    <<"l","a"," ">> \o KeyRM }

RealInputs ==
  Fragments \cup Typos \cup NamedInputs \cup {AliasesRM[i] : i \in 1..Len(AliasesRM)}

\* Regions for catalogs of several entries: "Bío-Bío", "Biobío", "Santiago",
\* "Santiago Centro", "Ñuble".
RegionPool ==
  { <<"B","U00ED","o","-","B","U00ED","o">>,
    <<"B","i","o","b","U00ED","o">>,
    <<"S","a","n","t","i","a","g","o">>,
    <<"S","a","n","t","i","a","g","o"," ","C","e","n","t","r","o">>,
    <<"U00D1","u","b","l","e">> }

Center(region) ==
  [ region |-> region, name |-> "CENTER", address |-> "Address",
    products |-> "Notebook", image |-> "center.png" ]

\* The largest number of entries of such a catalog.
MaxEntries == 2

\* Catalogs of 1..MaxEntries entries with pairwise distinct canonical keys.
RECURSIVE CatalogsOfLen(_)
CatalogsOfLen(n) ==
  IF n = 0 THEN {<<>>}
  ELSE {Append(c, Center(r)) :
          c \in CatalogsOfLen(n - 1),
          r \in RegionPool} 

DistinctKeys(catalog) ==
  \A i \in 1..Len(catalog) : \A j \in 1..Len(catalog) :
    i # j => normalize(Str(catalog[i].region)) # normalize(Str(catalog[j].region))

PoolCatalogs ==
  {c \in UNION {CatalogsOfLen(n) : n \in 1..MaxEntries} : DistinctKeys(c)}

\* An alias table for the pool, its property names written in canonical form.
PoolAliasTable ==
  LET bio == <<"b","i","o"," ","b","i","o">>
      stgo == <<"s","a","n","t","i","a","g","o">>
      nuble == <<"n","u","b","l","e">>
  IN  [k \in {bio, stgo, nuble} |->
         IF k = bio THEN << <<"b","i","o","b","i","o">>, <<"b","b">> >>
         ELSE IF k = stgo THEN << <<"s","t","g","o">>, <<"R","M">> >>
         ELSE << <<"c","h","i","l","l","a","n">> >>]

PoolInputs ==
  RegionPool \cup
  { <<"b","i","o","-","b","i","o">>,
    <<"b","b">>,
    <<"s","t","g","o">>,
    <<"r","m">>,
    <<"s","a","n","t","i","a">>,
    <<"s","a","n","t","i">>,
    <<"c","e","n","t","r","o">>,
    <<"c","h","i","l","l","e","n">>,
    <<"n","u","b">>,
    <<"x","y","z","w">>,
    <<"?">> }

\* The data and inputs of a direct call.
Worlds ==
  {[catalog |-> Catalog, aliases |-> AliasTable, input |-> x] : x \in RealInputs}
  \cup {[catalog |-> c, aliases |-> PoolAliasTable, input |-> x] :
          c \in PoolCatalogs, x \in PoolInputs}

InitResolve ==
  /\ Idle
  /\ \E w \in Worlds :
       /\ serviceCenters = w.catalog
       /\ REGION_ALIASES = w.aliases
       /\ \/ call = [fn |-> "findByRegionFlexible", input |-> w.input,
                     phase |-> "called", out |-> NoEntry]
          \/ \E i \in 1..Len(w.catalog) :
               call = [fn |-> "isAliasMatch", input |-> w.input, entry |-> i,
                       phase |-> "called", out |-> FALSE]

\* findByRegionFlexible(input)
FindByRegionFlexible ==
  /\ call.fn = "findByRegionFlexible"
  /\ call.phase = "called"
  /\ call' = [call EXCEPT !.phase = "returned",
                          !.out = findByRegionFlexible(call.input)]
  /\ UNCHANGED <<serviceCenters, REGION_ALIASES, pending, responses>>

\* isAliasMatch(input, serviceCenters[entry].region)
IsAliasMatch ==
  /\ call.fn = "isAliasMatch"
  /\ call.phase = "called"
  /\ call' = [call EXCEPT !.phase = "returned",
                          !.out = isAliasMatch(call.input,
                                               serviceCenters[call.entry].region)]
  /\ UNCHANGED <<serviceCenters, REGION_ALIASES, pending, responses>>

NextResolve == FindByRegionFlexible \/ IsAliasMatch

SpecResolve == InitResolve /\ [][NextResolve]_vars

(***************************************************************************)
(* The server: requests arrive, and each handler runs to completion, in    *)
(* any order                                                               *)
(***************************************************************************)
\* The largest number of requests received.
MaxRequests == 2

\* Values of the region field of a JSON body or of the query string.
RegionStrings ==
  { RegionRM,
    <<"s","a","n","t","i","a","g","o">>,
    <<"r","m">>,
    <<"m","e","t","r","o">>,
    <<"!","!","!">>,
    <<"V","a","l","p","a","r","a","U00ED","s","o">>,
    <<>> }

BodyRegions == {Str(s) : s \in RegionStrings} \cup {Undefined, Null, Num5, Num0, ArrRm}

\* A query string gives strings, arrays or nothing.
QueryRegions == {Str(s) : s \in RegionStrings} \cup {Undefined, ArrRm}

Requests ==
  {[route |-> "POST /nearest", region |-> v] : v \in BodyRegions}
  \cup {[route |-> "GET /nearest", region |-> v] : v \in QueryRegions}
  \cup {[route |-> "GET /health", region |-> Undefined]}
  \cup {[route |-> "POST /nearest index.js", region |-> v] : v \in BodyRegions}

\* serviceCenters.map(sc => sc.region)
regions == [i \in 1..Len(serviceCenters) |-> serviceCenters[i].region]

Response(status, error, expectedRegions, centers) ==
  [status |-> status, error |-> error, expectedRegions |-> expectedRegions,
   centers |-> centers]

\* The one element of centers in a 200 response.
center(match) ==
  <<[name |-> match.name, address |-> match.address, products |-> match.products]>>

\* The validation of both /nearest handlers of part_000.
invalid(rawRegion) == Falsy(rawRegion) \/ rawRegion.type # "string"

\* A plausible slip: the not-found response without the region names (as in
\* index.js).
nearestNoList(rawRegion, invalidError, withHint) ==
  IF invalid(rawRegion)
    THEN [res |-> Response(422, invalidError, regions, <<>>), matcher |-> FALSE]
    ELSE LET match == findByRegionFlexible(rawRegion.val)
         IN  [res |-> IF match = NoEntry
                        THEN Response(404, "No service center found", <<>>, <<>>)
                        ELSE Response(200, "", <<>>, center(match)),
              matcher |-> TRUE]

\* The handler of POST /nearest and of GET /nearest in part_000: the response,
\* and whether findByRegionFlexible was called.
nearest(rawRegion, invalidError, withHint) ==
  IF invalid(rawRegion)
    THEN [res |-> Response(422, invalidError, regions, <<>>), matcher |-> FALSE]
    ELSE LET match == findByRegionFlexible(rawRegion.val)
         IN  [res |-> IF match = NoEntry
                        THEN Response(404, IF withHint THEN "No service center found (hint)"
                                           ELSE "No service center found",
                                      regions, <<>>)
                        ELSE Response(200, "", <<>>, center(match)),
              matcher |-> TRUE]

\* The handler of POST /nearest in index.js: a falsy region becomes '',
\* normalize throws for any other value that is not a string (Express answers
\* 500), and the catalog is searched for an equal key.
nearestExact(region) ==
  LET regionInput == normalizeExact(IF Falsy(region) THEN Str(<<>>) ELSE region)
      match == find(serviceCenters,
                    {i \in 1..Len(serviceCenters) :
                       normalizeExact(Str(serviceCenters[i].region)).val
                         = regionInput.val})
  IN  IF regionInput.threw
        THEN [res |-> Response(500, "TypeError", <<>>, <<>>), matcher |-> FALSE]
        ELSE [res |-> IF match = NoEntry
                        THEN Response(404, "No service center found for that region.",
                                      <<>>, <<>>)
                        ELSE Response(200, "", <<>>, center(match)),
              matcher |-> TRUE]

Init ==
  /\ StaticData
  /\ Idle
  /\ call = NoCall

\* A request arrives.
Receive ==
  /\ call = NoCall
  /\ Cardinality(pending) + Cardinality(responses) < MaxRequests
  /\ \E req \in Requests :
       /\ req \notin pending
       /\ \A h \in responses : h.req # req
       /\ pending' = pending \cup {req}
  /\ UNCHANGED <<serviceCenters, REGION_ALIASES, responses, call>>

Handled(req, outcome) ==
  /\ pending' = pending \ {req}
  /\ responses' = responses \cup
       {[req |-> req, res |-> outcome.res, matcher |-> outcome.matcher]}

\* A plausible slip: a matched input is remembered as a new alias property.
PostNearestLearning ==
  /\ \E req \in pending :
       /\ req.route = "POST /nearest"
       /\ LET outcome == nearest(req.region, "Invalid payload", TRUE)
          IN  /\ Handled(req, outcome)
              /\ REGION_ALIASES' =
                   IF outcome.res.status = 200
                     THEN [k \in DOMAIN REGION_ALIASES \cup {req.region.val} |->
                             IF k \in DOMAIN REGION_ALIASES
                               THEN REGION_ALIASES[k] ELSE <<>>]
                     ELSE REGION_ALIASES
  /\ UNCHANGED <<serviceCenters, call>>

\* app.post('/nearest') of part_000
PostNearest ==
  /\ \E req \in pending :
       /\ req.route = "POST /nearest"
       /\ Handled(req, nearest(req.region, "Invalid payload", TRUE))
  /\ UNCHANGED <<serviceCenters, REGION_ALIASES, call>>

\* app.get('/nearest') of part_000
GetNearest ==
  /\ \E req \in pending :
       /\ req.route = "GET /nearest"
       /\ Handled(req, nearest(req.region, "Missing ?region=... query parameter",
                               FALSE))
  /\ UNCHANGED <<serviceCenters, REGION_ALIASES, call>>

\* app.get('/health') of part_000
GetHealth ==
  /\ \E req \in pending :
       /\ req.route = "GET /health"
       /\ Handled(req, [res |-> Response(200, "ok", regions, <<>>),
                        matcher |-> FALSE])
  /\ UNCHANGED <<serviceCenters, REGION_ALIASES, call>>

\* app.post('/nearest') of index.js
PostNearestExact ==
  /\ \E req \in pending :
       /\ req.route = "POST /nearest index.js"
       /\ Handled(req, nearestExact(req.region))
  /\ UNCHANGED <<serviceCenters, REGION_ALIASES, call>>

Next == Receive \/ PostNearest \/ GetNearest \/ GetHealth \/ PostNearestExact

Spec == Init /\ [][Next]_vars

(***************************************************************************)
(* Properties of normalize                                                 *)
(***************************************************************************)
\* A canonical key: lower-case ASCII letters, digits and single spaces, with
\* no space at either end.
CanonicalForm(s) ==
  /\ \A i \in 1..Len(s) : s[i] \in AsciiLower \cup Digits \cup {" "}
  /\ s # <<>> => s[1] # " " /\ s[Len(s)] # " "
  /\ \A i \in 1..(Len(s) - 1) : ~(s[i] = " " /\ s[i + 1] = " ")

\* C3: normalize is idempotent. Once normalize has been applied to a value
\* and then to its own result, the second result equals the first (in both
\* variants of normalize); for a string the first result of the six-step
\* variant is the six steps applied in the order lower-case, NFD, strip
\* marks, replace punctuation, collapse white space, trim, and is a
\* canonical key.
C3_NormalizeIdempotent ==
  (call.fn = "normalize" /\ call.phase = "twice") =>
    /\ call.again = call.out
    /\ call.againExact = call.outExact
    /\ call.arg.type = "string" =>
         /\ call.out = trim(collapseSpaces(replacePunct(stripMarks(
                         NFD(toLowerCase(call.arg.val))))))
         /\ CanonicalForm(call.out)

\* An accented capital, punctuation and a letter: "o a" both times.
C3_Witness ==
  /\ call.fn = "normalize"
  /\ call.phase = "twice"
  /\ call.arg = Str(<<"U00D3", "!", "a">>)
  /\ call.out = <<"o", " ", "a">>
  /\ call.again = <<"o", " ", "a">>

\* C4: both variants of normalize return the empty string for the empty
\* string and for an absent value (undefined or null), without throwing.
C4_AbsentGivesEmpty ==
  (/\ call.fn = "normalize"
   /\ call.phase # "called"
   /\ call.arg \in {Str(<<>>), Undefined, Null}) =>
    /\ call.out = <<>>
    /\ ~call.outExact.threw
    /\ call.outExact.val = <<>>

(***************************************************************************)
(* Properties of levenshtein                                               *)
(***************************************************************************)
Max2(x, y) == IF x >= y THEN x ELSE y

\* The strings one insertion, deletion or substitution away from s, using
\* the characters of alphabet and at most maxLen characters.
EditNeighbours(s, alphabet, maxLen) ==
  {SubSeq(s, 1, i - 1) \o SubSeq(s, i + 1, Len(s)) : i \in 1..Len(s)}
  \cup {[s EXCEPT ![i] = c] : i \in 1..Len(s), c \in alphabet}
  \cup IF Len(s) >= maxLen THEN {}
       ELSE {SubSeq(s, 1, i) \o <<c>> \o SubSeq(s, i + 1, Len(s)) :
               i \in 0..Len(s), c \in alphabet}

\* The strings at most k edits away from a string of S.
RECURSIVE EditBall(_, _, _, _)
EditBall(S, k, alphabet, maxLen) ==
  IF k = 0 THEN S
  ELSE EditBall(S \cup UNION {EditNeighbours(s, alphabet, maxLen) : s \in S},
                k - 1, alphabet, maxLen)

\* d is the least number of edits turning a into b. A shortest edit script
\* needs only the characters of b and no string longer than the longer of
\* the two.
IsEditDistance(a, b, d) ==
  LET alphabet == {b[i] : i \in 1..Len(b)}
      maxLen == Max2(Len(a), Len(b))
  IN  /\ d \in 0..maxLen
      /\ b \in EditBall({a}, d, alphabet, maxLen)
      /\ d > 0 => b \notin EditBall({a}, d - 1, alphabet, maxLen)

\* C5: levenshtein(a, b) is the least number of single-character
\* insertions, deletions and substitutions turning normalize(a) into
\* normalize(b); with one of them empty it is the length of the other's
\* normal form, for equal strings it is 0, and levenshtein(b, a) is the
\* same number.
C5_LevenshteinIsEditDistance ==
  (call.fn = "levenshtein" /\ call.phase # "called") =>
    LET a == normalize(Str(call.a))
        b == normalize(Str(call.b))
    IN  /\ IsEditDistance(a, b, call.out)
        /\ b = <<>> => call.out = Len(a)
        /\ a = <<>> => call.out = Len(b)
        /\ a = b => call.out = 0
        /\ call.phase = "both" => call.swapped = call.out

\* "a B" against "ba": normal forms "a b" and "ba", three edits either way.
C5_Witness ==
  /\ call.fn = "levenshtein"
  /\ call.phase = "both"
  /\ call.a = <<"a", " ", "B">>
  /\ call.b = <<"B", "a">>
  /\ call.out = 3
  /\ call.swapped = 3

(***************************************************************************)
(* Properties of the matcher                                               *)
(***************************************************************************)
Key(e) == normalize(Str(e.region))

\* The aliases the table registers for entry e: those listed under a
\* property name that is e's region name, up to canonical form.
RegisteredAliases(e) ==
  UNION {{REGION_ALIASES[k][i] : i \in 1..Len(REGION_ALIASES[k])} :
           k \in {x \in DOMAIN REGION_ALIASES : normalize(Str(x)) = Key(e)}}

Returned(fn) == call.fn = fn /\ call.phase = "returned"

InputN == normalize(Str(call.input))

\* The input is, in canonical form, one of the aliases registered for e.
EqualsAlias(e) ==
  \E a \in RegisteredAliases(e) : normalize(Str(a)) = InputN

\* C1: an input whose canonical form equals the canonical form of an alias
\* registered for entry e is matched to e, whatever its length:
\* isAliasMatch(input, e.region) is true, findByRegionFlexible finds an
\* entry, which is e when e is the only entry, and on the module's own data
\* "rm" resolves to SAMTEK.
C1_RegisteredAliasMatches ==
  /\ Returned("isAliasMatch") =>
       (EqualsAlias(serviceCenters[call.entry]) => call.out = TRUE)
  /\ Returned("findByRegionFlexible") =>
       /\ (\E i \in 1..Len(serviceCenters) : EqualsAlias(serviceCenters[i])) =>
            /\ call.out # NoEntry
            /\ Len(serviceCenters) = 1 => call.out = serviceCenters[1]
       /\ (serviceCenters = Catalog /\ call.input = <<"r", "m">>) =>
            call.out = SAMTEK

\* Conditions (a)-(e) of isAliasMatch for entry e, with the alias set the
\* lookup by canonical key gives.
ConditionsAE(e) ==
  LET aliases == aliasesFor(Key(e))
  IN  \/ InputN = Key(e)
      \/ \E i \in 1..Len(aliases) : normalize(Str(aliases[i])) = InputN
      \/ /\ Len(InputN) >= 6
         /\ (includes(Key(e), InputN) \/ includes(InputN, Key(e)))
      \/ levenshtein(InputN, Key(e)) <= 2
      \/ \E i \in 1..Len(aliases) :
           levenshtein(InputN, normalize(Str(aliases[i]))) <= 2

\* C8: with pairwise distinct canonical keys, findByRegionFlexible returns
\* the entry whose canonical key equals the canonical input if there is one,
\* even when an earlier entry satisfies one of (a)-(e); otherwise the first
\* entry in catalog order satisfying one of (a)-(e); and no entry exactly when
\* none satisfies any.
C8_ExactFirstThenCatalogOrder ==
  (Returned("findByRegionFlexible") /\ DistinctKeys(serviceCenters)) =>
    LET exact == {i \in 1..Len(serviceCenters) : Key(serviceCenters[i]) = InputN}
        cond == {i \in 1..Len(serviceCenters) : ConditionsAE(serviceCenters[i])}
    IN  /\ exact # {} => \A k \in exact : call.out = serviceCenters[k]
        /\ (exact = {} /\ cond # {}) =>
             \E i \in cond : /\ call.out = serviceCenters[i]
                             /\ \A k \in 1..(i - 1) : k \notin cond
        /\ call.out = NoEntry <=> cond = {}

\* "Biobío" resolved against <<"Bío-Bío", "Biobío">>: the second entry is
\* returned although the first, earlier one is within distance 2 and has the
\* alias "biobio".
C8_Witness ==
  /\ Returned("findByRegionFlexible")
  /\ Len(serviceCenters) = 2
  /\ serviceCenters[1].region = <<"B","U00ED","o","-","B","U00ED","o">>
  /\ call.input = <<"B","i","o","b","U00ED","o">>
  /\ call.out = serviceCenters[2]
  /\ ConditionsAE(serviceCenters[1])
  /\ InputN # Key(serviceCenters[1])

\* Substring containment between the canonical input and e's canonical key.
Contained(e) == includes(Key(e), InputN) \/ includes(InputN, Key(e))

\* The canonical input is short, differs from e's key and from every alias
\* registered for e, and is more than 2 edits from the key and from every
\* alias.
ShortAndFar(e) ==
  /\ Len(InputN) < 6
  /\ InputN # Key(e)
  /\ ~EqualsAlias(e)
  /\ levenshtein(InputN, Key(e)) > 2
  /\ \A a \in RegisteredAliases(e) : levenshtein(InputN, a) > 2

\* C9: substring containment matches only from 6 canonical characters on.
\* An input of at least 6 canonical characters contained in (or containing)
\* an entry's key matches that entry, so findByRegionFlexible finds an entry
\* (that one, if it is the only one). An input of fewer than 6 canonical
\* characters that is no key, no registered alias and more than 2 edits
\* from every key and alias is not found, a substring of the key or not;
\* on the module's own data "metro" and "de" are not found.
C9_SubstringGate ==
  /\ Returned("isAliasMatch") =>
       LET e == serviceCenters[call.entry]
       IN  /\ (Len(InputN) >= 6 /\ Contained(e)) => call.out = TRUE
           /\ ShortAndFar(e) => call.out = FALSE
  /\ Returned("findByRegionFlexible") =>
       /\ (\E i \in 1..Len(serviceCenters) :
             Len(InputN) >= 6 /\ Contained(serviceCenters[i])) =>
            /\ call.out # NoEntry
            /\ Len(serviceCenters) = 1 => call.out = serviceCenters[1]
       /\ (\A i \in 1..Len(serviceCenters) : ShortAndFar(serviceCenters[i])) =>
            call.out = NoEntry
       /\ (/\ serviceCenters = Catalog
           /\ call.input \in {<<"m","e","t","r","o">>, <<"d","e">>}) =>
            call.out = NoEntry

\* "metro", a substring of the key of 5 characters, is not found.
C9_Witness ==
  /\ Returned("findByRegionFlexible")
  /\ serviceCenters = Catalog
  /\ call.input = <<"m","e","t","r","o">>
  /\ Contained(SAMTEK)
  /\ ShortAndFar(SAMTEK)
  /\ call.out = NoEntry

\* The input is within 2 edits of the canonical form of an alias registered
\* for e.
NearAlias(e) ==
  \E a \in RegisteredAliases(e) : levenshtein(InputN, normalize(Str(a))) <= 2

\* C10: an input within edit distance 2 of the canonical form of an alias
\* registered for entry e is matched to e: isAliasMatch(input, e.region) is
\* true, and findByRegionFlexible finds an entry, which is e when e is the
\* only entry.
C10_NearAliasMatches ==
  /\ Returned("isAliasMatch") =>
       (NearAlias(serviceCenters[call.entry]) => call.out = TRUE)
  /\ (/\ Returned("findByRegionFlexible")
      /\ \E i \in 1..Len(serviceCenters) : NearAlias(serviceCenters[i])) =>
       /\ call.out # NoEntry
       /\ Len(serviceCenters) = 1 => call.out = serviceCenters[1]

(***************************************************************************)
(* Properties of the server                                                *)
(***************************************************************************)
NearestRoutes == {"POST /nearest", "GET /nearest", "POST /nearest index.js"}

FlexibleRoutes == {"POST /nearest", "GET /nearest"}

\* The region value is missing, not a string, or the empty string.
InvalidRegion(v) == v.type # "string" \/ v.val = <<>>

\* C2: every /nearest request whose region is missing, empty or not a string
\* is answered 422 (invalid payload) without the matcher being called, and
\* 404 (not found) is only ever the answer to a non-empty string.
C2_InvalidInputRejected ==
  \A h \in responses :
    h.req.route \in NearestRoutes =>
      /\ InvalidRegion(h.req.region) => (h.res.status = 422 /\ ~h.matcher)
      /\ h.res.status = 404 => ~InvalidRegion(h.req.region)

\* C6: for every non-empty string the /nearest handlers of part_000 accept,
\* also one whose canonical key is empty, findByRegionFlexible is called and
\* returns an entry or none: the answer is 200 with an entry of the catalog
\* or 404, never a fault, and a 404 lists the region names of all entries.
C6_NotFoundIsAValue ==
  \A h \in responses :
    (h.req.route \in FlexibleRoutes /\ ~InvalidRegion(h.req.region)) =>
      /\ h.matcher
      /\ h.res.status \in {200, 404}
      /\ h.res.status = 200 =>
           \E i \in 1..Len(serviceCenters) :
             h.res.centers[1].name = serviceCenters[i].name
      /\ h.res.status = 404 =>
           /\ Len(h.res.expectedRegions) = Len(serviceCenters)
           /\ \A i \in 1..Len(serviceCenters) :
                h.res.expectedRegions[i] = serviceCenters[i].region
      /\ normalize(h.req.region) = <<>> => h.res.status = 404

\* "!!!", whose canonical key is empty, posted: 404 listing the one region.
C6_Witness ==
  \E h \in responses :
    /\ h.req = [route |-> "POST /nearest", region |-> Str(<<"!","!","!">>)]
    /\ normalize(h.req.region) = <<>>
    /\ h.res.status = 404
    /\ h.res.expectedRegions = <<RegionRM>>

\* The outcome of a request handled alone, on the data as built at start.
Alone(req) ==
  CASE req.route = "POST /nearest" -> nearest(req.region, "Invalid payload", TRUE)
    [] req.route = "GET /nearest" ->
         nearest(req.region, "Missing ?region=... query parameter", FALSE)
    [] req.route = "GET /health" ->
         [res |-> Response(200, "ok", <<RegionRM>>, <<>>), matcher |-> FALSE]
    [] req.route = "POST /nearest index.js" -> nearestExact(req.region)

\* C7: in every interleaving of requests the catalog and the alias table are
\* as built at start, and every request handled has the outcome it has when
\* handled alone.
C7_RequestsIndependent ==
  /\ serviceCenters = Catalog
  /\ REGION_ALIASES = AliasTable
  /\ \A h \in responses :
       [res |-> h.res, matcher |-> h.matcher] = Alone(h.req)

\* Two requests handled after both were pending: one matched, one not found.
C7_Witness ==
  /\ pending = {}
  /\ \E h \in responses :
       /\ h.req = [route |-> "POST /nearest",
                   region |-> Str(<<"s","a","n","t","i","a","g","o">>)]
       /\ h.res.status = 200
  /\ \E h \in responses :
       /\ h.req = [route |-> "GET /nearest", region |-> Str(<<"m","e","t","r","o">>)]
       /\ h.res.status = 404

====
